---- MODULE Spec2Model ----
(***************************************************************************)
(* Model of scripts/reddit_scanner.py: a one-shot command-line process     *)
(* that scans subreddits for keyword matches, replies to a post (dry run   *)
(* by default), reports warm-up information and account status.  The       *)
(* remote service (reached through the PRAW client) is the environment:    *)
(* its answers are inputs of each invocation, and the comments it stores   *)
(* are the only state that survives a process.                             *)
(*                                                                         *)
(* Python strings are sequences of one-character strings, so that          *)
(* lower(), startswith(), split(), slicing and the `in` substring test are *)
(* computed as the code computes them.                                     *)
(***************************************************************************)
EXTENDS Integers, Sequences, FiniteSets, TLC

\* ---------------------------------------------------------------- strings

\* Python's None for string-valued things: distinct from every string.
None == <<"None">>

\* Truthiness of an optional string: None and "" are falsy.
Truthy(s) == s # None /\ s # <<>>

UpperChars ==
    <<"A", "B", "C", "D", "E", "F", "G", "H", "I", "J", "K", "L", "M",
      "N", "O", "P", "Q", "R", "S", "T", "U", "V", "W", "X", "Y", "Z">>

LowerChars ==
    <<"a", "b", "c", "d", "e", "f", "g", "h", "i", "j", "k", "l", "m",
      "n", "o", "p", "q", "r", "s", "t", "u", "v", "w", "x", "y", "z">>

\* str.lower() on one character.
LowerChar(c) ==
    IF \E i \in 1..Len(UpperChars) : UpperChars[i] = c
    THEN LowerChars[CHOOSE i \in 1..Len(UpperChars) : UpperChars[i] = c]
    ELSE c

\* str.lower()
Lower(s) == [i \in 1..Len(s) |-> LowerChar(s[i])]

\* Python's `kw in text` on strings.
Contains(text, kw) ==
    \E i \in 0..(Len(text) - Len(kw)) : SubSeq(text, i + 1, i + Len(kw)) = kw

\* s[:n]
Prefix(s, n) == SubSeq(s, 1, IF Len(s) < n THEN Len(s) ELSE n)

\* s.startswith(p)
StartsWith(s, p) == Len(p) <= Len(s) /\ SubSeq(s, 1, Len(p)) = p

\* Index of the first occurrence of character c in s at or after position i,
\* Len(s) + 1 when there is none.
RECURSIVE FindChar(_, _, _)
FindChar(s, c, i) ==
    IF i > Len(s) THEN Len(s) + 1
    ELSE IF s[i] = c THEN i
    ELSE FindChar(s, c, i + 1)

\* s.split(c): the pieces between the occurrences of c (never empty).
RECURSIVE Split(_, _)
Split(s, c) ==
    LET j == FindChar(s, c, 1)
    IN  IF j > Len(s) THEN <<s>>
        ELSE <<SubSeq(s, 1, j - 1)>> \o Split(SubSeq(s, j + 1, Len(s)), c)

\* s.split(c, 1)[1], for an s that contains c.
AfterFirst(s, c) == SubSeq(s, FindChar(s, c, 1) + 1, Len(s))

\* Whether x occurs in the sequence s (Python's `x in list`).
InSeq(x, s) == \E i \in 1..Len(s) : s[i] = x

\* ----------------------------------------------------------------- config

DEFAULT_SUBS ==
    << <<"S", "i", "d", "e", "P", "r", "o", "j", "e", "c", "t">>,
       <<"S", "a", "a", "S">>,
       <<"e", "n", "t", "r", "e", "p", "r", "e", "n", "e", "u", "r">>,
       <<"A", "u", "t", "o", "m", "a", "t", "e">>,
       <<"s", "m", "a", "l", "l", "b", "u", "s", "i", "n", "e", "s", "s">>,
       <<"s", "t", "a", "r", "t", "u", "p", "s">>,
       <<"w", "e", "b", "d", "e", "v">>,
       <<"d", "a", "t", "a", "i", "s", "b", "e", "a", "u", "t", "i", "f", "u", "l">> >>

PAIN_KEYWORDS ==
    << <<"i", "s", " ", "t", "h", "e", "r", "e", " ", "a", " ", "t", "o", "o", "l">>,
       <<"i", " ", "n", "e", "e", "d">>,
       <<"l", "o", "o", "k", "i", "n", "g", " ", "f", "o", "r">>,
       <<"a", "n", "y", "o", "n", "e", " ", "k", "n", "o", "w">>,
       <<"d", "o", "e", "s", " ", "a", "n", "y", "o", "n", "e">>,
       <<"h", "o", "w", " ", "d", "o", " ", "i">>,
       <<"r", "e", "c", "o", "m", "m", "e", "n", "d">>,
       <<"a", "l", "t", "e", "r", "n", "a", "t", "i", "v", "e", " ", "t", "o">>,
       <<"a", "u", "t", "o", "m", "a", "t", "i", "o", "n">>,
       <<"a", "i", " ", "t", "o", "o", "l">>,
       <<"w", "o", "r", "k", "f", "l", "o", "w">>,
       <<"s", "c", "r", "a", "p", "i", "n", "g">>,
       <<"m", "o", "n", "i", "t", "o", "r", "i", "n", "g">>,
       <<"c", "o", "m", "p", "e", "t", "i", "t", "o", "r", " ", "a", "n", "a", "l", "y", "s", "i", "s">>,
       <<"m", "a", "r", "k", "e", "t", " ", "r", "e", "s", "e", "a", "r", "c", "h">>,
       <<"p", "r", "i", "c", "e", " ", "t", "r", "a", "c", "k", "i", "n", "g">>,
       <<"d", "a", "t", "a", " ", "c", "o", "l", "l", "e", "c", "t", "i", "o", "n">>,
       <<"w", "e", "b", " ", "s", "c", "r", "a", "p", "i", "n", "g">>,
       <<"b", "r", "o", "w", "s", "e", "r", " ", "a", "u", "t", "o", "m", "a", "t", "i", "o", "n">> >>

S_scan == <<"s", "c", "a", "n">>
S_reply == <<"r", "e", "p", "l", "y">>
S_warmup == <<"w", "a", "r", "m", "u", "p">>
S_status == <<"s", "t", "a", "t", "u", "s">>
S_live == <<"-", "-", "l", "i", "v", "e">>
S_subs_eq == <<"-", "-", "s", "u", "b", "s", "=">>

\* ------------------------------------------------------- values and results

\* An optional list argument (subreddits=None, keywords=None).
NoList == [given |-> FALSE, list |-> <<>>]

GivenList(l) == [given |-> TRUE, list |-> l]

\* `arg or default` for an optional list: None and [] are both falsy.
OrDefault(arg, default) ==
    IF arg.given /\ arg.list # <<>> THEN arg.list ELSE default

\* What a function returns: a dict, a list of dicts, or nothing (it raised).
DictResult(d) == [type |-> "dict", dict |-> d, list |-> <<>>]

ListResult(l) == [type |-> "list", dict |-> [none |-> TRUE], list |-> l]

NoResult == [type |-> "none", dict |-> [none |-> TRUE], list |-> <<>>]

\* The outcome of running one of the four functions: whether an exception
\* left it, what it returned, the calls it made to the remote service in
\* order, and the comments the service stores afterwards.
Outcome(raised, result, calls, comments) ==
    [raised |-> raised, result |-> result, calls |-> calls, comments |-> comments]

\* -------------------------------------------------------------- PRAW init

\* A plausible slip: `and` for `or` in the test of the two credentials.
get_reddit_and(environ, net) ==
    IF ~Truthy(environ.client_id) /\ ~Truthy(environ.client_secret)
    THEN [ok |-> FALSE, raised |-> FALSE, read_only |-> TRUE]
    ELSE [ok |-> TRUE,
          raised |-> net.construct_raises,
          read_only |-> ~(Truthy(environ.username) /\ Truthy(environ.password))]

\* get_reddit(): no handle (None) unless both the client id and the client
\* secret are truthy; otherwise praw.Reddit(...) is constructed, which may
\* raise; with username and password the handle is authenticated, otherwise
\* read-only.  No network call is made here.
get_reddit(environ, net) ==
    IF ~Truthy(environ.client_id) \/ ~Truthy(environ.client_secret)
    THEN [ok |-> FALSE, raised |-> FALSE, read_only |-> TRUE]
    ELSE [ok |-> TRUE,
          raised |-> net.construct_raises,
          read_only |-> ~(Truthy(environ.username) /\ Truthy(environ.password))]

\* -------------------------------------------------------------------- scan

Min(a, b) == IF a < b THEN a ELSE b

\* text = (post.title + " " + (post.selftext or "")).lower()
PostText(post) ==
    Lower(post.title \o <<" ">> \o
          (IF "selftext" \in post.nulls THEN <<>> ELSE post.selftext))

\* matched = [kw for kw in kws if kw in text]
Matched(kws, text) == SelectSeq(kws, LAMBDA kw : Contains(text, kw))

\* The record appended for a matching post.  age_hours (a rounded float of
\* the wall clock) is left out; reading a null created_utc for it raises.
PostRecord(post, sub_name, matched) ==
    [id |-> post.id,
     title |-> post.title,
     body |-> Prefix(IF "selftext" \in post.nulls THEN <<>> ELSE post.selftext, 800),
     url |-> <<"https://reddit.com", post.permalink>>,
     subreddit |-> sub_name,
     score |-> post.score,
     num_comments |-> post.num_comments,
     created_utc |-> post.created_utc,
     keywords_matched |-> matched]

\* The body of the inner loop for the posts the listing yields, from post i
\* on: [records, raised].  A null title raises when the text is built; a null
\* created_utc raises when the record of a matching post is built.
RECURSIVE ScanPosts(_, _, _, _)
ScanPosts(posts, i, sub_name, kws) ==
    IF i > Len(posts) THEN [records |-> <<>>, raised |-> FALSE]
    ELSE IF "title" \in posts[i].nulls THEN [records |-> <<>>, raised |-> TRUE]
    ELSE LET matched == Matched(kws, PostText(posts[i]))
         IN  IF matched = <<>> THEN ScanPosts(posts, i + 1, sub_name, kws)
             ELSE IF "created_utc" \in posts[i].nulls
             THEN [records |-> <<>>, raised |-> TRUE]
             ELSE LET rest == ScanPosts(posts, i + 1, sub_name, kws)
                  IN  [records |-> <<PostRecord(posts[i], sub_name, matched)>>
                                      \o rest.records,
                       raised |-> rest.raised]

\* The subreddits that exist on the remote service: the default ones.
SubNames == {DEFAULT_SUBS[i] : i \in 1..Len(DEFAULT_SUBS)}

\* subreddit.new(limit=limit) on the remote service: the posts it yields and
\* whether the iteration then raises.  An unknown subreddit raises at once; a
\* subreddit the feed does not list has no posts; a listing raises after
\* yielding raise_after posts (never, when that is -1 or the limit is reached
\* first).
Listing(net, sub_name, limit) ==
    IF sub_name \notin SubNames
    THEN [posts |-> <<>>, raises |-> TRUE]
    ELSE IF sub_name \notin DOMAIN net.feed
    THEN [posts |-> <<>>, raises |-> FALSE]
    ELSE LET l == net.feed[sub_name]
             fails == l.raise_after >= 0 /\ l.raise_after < limit
         IN  [posts |-> Prefix(l.posts, IF fails THEN l.raise_after ELSE limit),
              raises |-> fails]

\* One pass of the outer loop: the try block for one subreddit, and the
\* except clause that appends the error record.
ScanSub(net, sub_name, kws, limit) ==
    LET l == Listing(net, sub_name, limit)
        s == ScanPosts(l.posts, 1, sub_name, kws)
    IN  [records |-> IF s.raised \/ l.raises
                     THEN s.records \o <<[error |-> <<"Failed to scan r/", sub_name>>]>>
                     ELSE s.records,
         calls |-> <<<<"new", sub_name>>>>]

\* A plausible slip: the try block around the whole loop, so that the first
\* failing subreddit ends the scan.
RECURSIVE ScanLoop_Abort(_, _, _, _, _)
ScanLoop_Abort(net, subs, i, kws, limit) ==
    IF i > Len(subs) THEN [records |-> <<>>, calls |-> <<>>]
    ELSE LET one == ScanSub(net, subs[i], kws, limit)
             rest == ScanLoop_Abort(net, subs, i + 1, kws, limit)
             failed == \E k \in 1..Len(one.records) : "error" \in DOMAIN one.records[k]
         IN  IF failed THEN one
             ELSE [records |-> one.records \o rest.records,
                   calls |-> one.calls \o rest.calls]

\* for sub_name in subs: ... , from position i on: the records appended and
\* the listing requests made.
RECURSIVE ScanLoop(_, _, _, _, _)
ScanLoop(net, subs, i, kws, limit) ==
    IF i > Len(subs) THEN [records |-> <<>>, calls |-> <<>>]
    ELSE LET one == ScanSub(net, subs[i], kws, limit)
             rest == ScanLoop(net, subs, i + 1, kws, limit)
         IN  [records |-> one.records \o rest.records,
              calls |-> one.calls \o rest.calls]

\* key=lambda x: x.get("created_utc", 0)
SortKey(x) == IF "created_utc" \in DOMAIN x THEN x.created_utc ELSE 0

\* list.sort(key=SortKey, reverse=True): descending and stable (records with
\* equal keys keep their order).
RECURSIVE InsertDesc(_, _)
InsertDesc(sorted, x) ==
    IF sorted = <<>> THEN <<x>>
    ELSE IF SortKey(Head(sorted)) >= SortKey(x)
    THEN <<Head(sorted)>> \o InsertDesc(Tail(sorted), x)
    ELSE <<x>> \o sorted

\* A plausible slip: reverse=True left out (ascending order).
RECURSIVE InsertAsc(_, _)
InsertAsc(sorted, x) ==
    IF sorted = <<>> THEN <<x>>
    ELSE IF SortKey(Head(sorted)) <= SortKey(x)
    THEN <<Head(sorted)>> \o InsertAsc(Tail(sorted), x)
    ELSE <<x>> \o sorted

RECURSIVE SortByRecency_Ascending(_)
SortByRecency_Ascending(results) ==
    IF results = <<>> THEN <<>>
    ELSE InsertAsc(SortByRecency_Ascending(SubSeq(results, 1, Len(results) - 1)),
                   results[Len(results)])

RECURSIVE SortByRecency(_)
SortByRecency(results) ==
    IF results = <<>> THEN <<>>
    ELSE InsertDesc(SortByRecency(SubSeq(results, 1, Len(results) - 1)),
                    results[Len(results)])

ERR_SCAN_NOT_CONFIGURED ==
    "Reddit credentials not configured. Set REDDIT_CLIENT_ID and REDDIT_CLIENT_SECRET."

ERR_NOT_CONFIGURED == "Reddit credentials not configured."

scan_opportunities(environ, net, comments, subreddits, keywords, limit) ==
    LET reddit == get_reddit(environ, net)
        subs == OrDefault(subreddits, DEFAULT_SUBS)
        kws == OrDefault(keywords, PAIN_KEYWORDS)
        loop == ScanLoop(net, subs, 1, kws, limit)
    IN  IF reddit.raised THEN Outcome(TRUE, NoResult, <<>>, comments)
        ELSE IF ~reddit.ok
        THEN Outcome(FALSE, DictResult([error |-> ERR_SCAN_NOT_CONFIGURED]),
                     <<>>, comments)
        ELSE Outcome(FALSE, ListResult(SortByRecency(loop.records)),
                     loop.calls, comments)

\* ------------------------------------------------------------------- reply

\* The comments of a post on the remote service are a sequence of
\* [author, parent]: comment i is a reply to comment parent, or top-level
\* when parent = 0.  author is None for a deleted account.

\* submission.comments after replace_more(limit=0): the service returned the
\* comments in `loaded` and "load more" placeholders for the rest;
\* replace_more(limit=0) drops the placeholders without fetching them.  A
\* comment is in the tree when it and all its ancestors were returned.
RECURSIVE InTree(_, _, _)
InTree(forest, loaded, i) ==
    /\ i \in loaded
    /\ forest[i].parent = 0 \/ InTree(forest, loaded, forest[i].parent)

\* submission.comments.list(): the comments of the tree, flattened (here in
\* order of creation; the code only asks whether any of them qualifies).
CommentList(forest, loaded) ==
    SelectSeq([i \in 1..Len(forest) |-> i], LAMBDA i : InTree(forest, loaded, i))

\* any(c.author and c.author.name == me.name for c in submission.comments.list())
already_replied(forest, loaded, me) ==
    \E k \in 1..Len(CommentList(forest, loaded)) :
        LET c == forest[CommentList(forest, loaded)[k]]
        IN  c.author # None /\ c.author = me.name

ErrorResult(msg) == DictResult([error |-> msg])

\* What a remote call of the reply path looks like in the call log.
FetchCall(post_id) == <<<<"fetch", post_id>>>>

MeCall(reddit) == IF reddit.read_only THEN <<>> ELSE <<<<"me">>>>

ReplyCall(post_id, reply_text) == <<<<"reply", post_id, reply_text>>>>

\* A plausible slip: the dry_run branch is missing.
PreviewOrSubmit_NoDryRun(reddit, net, comments, post_id, reply_text, dry_run) ==
    LET forest == comments[post_id]
        before == FetchCall(post_id) \o MeCall(reddit)
    IN  IF reddit.read_only \/ net.fault = "reply"
        THEN Outcome(FALSE, ErrorResult("exception: reply"),
                     before \o ReplyCall(post_id, reply_text), comments)
        ELSE Outcome(FALSE,
                     DictResult([status |-> "replied", post_id |-> post_id,
                                 comment_id |-> Len(forest) + 1]),
                     before \o ReplyCall(post_id, reply_text),
                     [comments EXCEPT ![post_id] =
                         Append(forest, [author |-> net.profile.name, parent |-> 0])])

\* The end of the try block, once the post is known not to be answered yet:
\* the dry-run preview, or submission.reply(reply_text), which a read-only
\* handle is refused and which adds a top-level comment of the account.
PreviewOrSubmit(reddit, net, comments, post_id, reply_text, dry_run) ==
    LET forest == comments[post_id]
        new_id == Len(forest) + 1
        before == FetchCall(post_id) \o MeCall(reddit)
    IN  IF dry_run
        THEN Outcome(FALSE,
                     DictResult([status |-> "dry_run",
                                 post_title |-> <<"title of", post_id>>,
                                 post_url |-> <<"https://reddit.com", post_id>>,
                                 would_reply |-> Prefix(reply_text, 300)]),
                     before, comments)
        ELSE IF reddit.read_only \/ net.fault = "reply"
        THEN Outcome(FALSE, ErrorResult("exception: reply"),
                     before \o ReplyCall(post_id, reply_text), comments)
        ELSE Outcome(FALSE,
                     DictResult([status |-> "replied",
                                 post_id |-> post_id,
                                 comment_id |-> new_id,
                                 comment_url |-> <<"https://reddit.com", post_id, new_id>>]),
                     before \o ReplyCall(post_id, reply_text),
                     [comments EXCEPT ![post_id] =
                         Append(forest, [author |-> net.profile.name, parent |-> 0])])

reply_to_post(environ, net, comments, post_id, reply_text, dry_run) ==
    LET reddit == get_reddit(environ, net)
    IN  IF reddit.raised THEN Outcome(TRUE, NoResult, <<>>, comments)
        ELSE IF ~reddit.ok
        THEN Outcome(FALSE, ErrorResult(ERR_NOT_CONFIGURED), <<>>, comments)
        \* submission.comments: the post and its comments are fetched
        ELSE IF post_id \notin DOMAIN comments \/ net.fault = "fetch"
        THEN Outcome(FALSE, ErrorResult("exception: fetch"), FetchCall(post_id),
                     comments)
        \* me = reddit.user.me(): None on a read-only handle, without a request
        ELSE IF ~reddit.read_only /\ net.fault = "me"
        THEN Outcome(FALSE, ErrorResult("exception: me"),
                     FetchCall(post_id) \o MeCall(reddit), comments)
        ELSE IF ~reddit.read_only
                /\ already_replied(comments[post_id], net.loaded, net.profile)
        THEN Outcome(FALSE,
                     DictResult([status |-> "skipped", reason |-> "already_replied"]),
                     FetchCall(post_id) \o MeCall(reddit), comments)
        ELSE PreviewOrSubmit(reddit, net, comments, post_id, reply_text, dry_run)

\* ------------------------------------------------------------------ warmup

\* subreddit("all").hot(limit=5): the posts yielded and whether the iteration
\* raises (the listing fails, or a title is null when title[:100] is taken).
HotLimit == 5

HotBrowse(net) ==
    LET fails == net.hot.raise_after >= 0 /\ net.hot.raise_after < HotLimit
        posts == Prefix(net.hot.posts, IF fails THEN net.hot.raise_after ELSE HotLimit)
    IN  [count |-> Len(posts),
         raises |-> fails \/ \E i \in 1..Len(posts) : "title" \in posts[i].nulls]

KarmaThreshold == 100

\* account_age_days (a rounded float of the wall clock) is left out of the
\* results of warmup_actions and check_status.
warmup_actions(environ, net, comments) ==
    LET reddit == get_reddit(environ, net)
        has_me == ~reddit.read_only
        me == net.profile
        me_call == IF reddit.read_only THEN <<>> ELSE <<<<"me">>>>
        karma == IF has_me THEN me.link_karma + me.comment_karma ELSE 0
        hot == HotBrowse(net)
    IN  IF reddit.raised THEN Outcome(TRUE, NoResult, <<>>, comments)
        ELSE IF ~reddit.ok
        THEN Outcome(FALSE, ErrorResult(ERR_NOT_CONFIGURED), <<>>, comments)
        ELSE IF has_me /\ net.fault = "me"
        THEN Outcome(FALSE, ErrorResult("exception: me"), me_call, comments)
        ELSE IF hot.raises
        THEN Outcome(FALSE, ErrorResult("exception: hot"),
                     me_call \o <<<<"hot", "all">>>>, comments)
        ELSE IF has_me /\ net.fault = "field"
        THEN Outcome(FALSE, ErrorResult("exception: field"),
                     me_call \o <<<<"hot", "all">>>>, comments)
        ELSE Outcome(FALSE,
                     DictResult([status |-> "ok",
                                 username |-> IF has_me THEN me.name ELSE <<"unknown">>,
                                 karma |-> karma,
                                 hot_posts_browsed |-> hot.count,
                                 suggestion |->
                                     IF karma < KarmaThreshold
                                     THEN "Comment on these posts with genuine value to build karma"
                                     ELSE "Ready for targeted replies"]),
                     me_call \o <<<<"hot", "all">>>>, comments)

\* ---------------------------------------------------------- account status

ReadyKarma == 50

\* A plausible slip: readiness taken from the total karma.
check_status_total(environ, net, comments) ==
    LET reddit == get_reddit(environ, net)
        me == net.profile
    IN  IF reddit.raised THEN Outcome(TRUE, NoResult, <<>>, comments)
        ELSE IF ~reddit.ok
        THEN Outcome(FALSE, ErrorResult(ERR_NOT_CONFIGURED), <<>>, comments)
        ELSE IF reddit.read_only
        THEN Outcome(FALSE, ErrorResult("exception: NoneType"), <<>>, comments)
        ELSE IF net.fault \in {"me", "field"}
        THEN Outcome(FALSE, ErrorResult("exception"), <<<<"me">>>>, comments)
        ELSE Outcome(FALSE,
                     DictResult([username |-> me.name,
                                 link_karma |-> me.link_karma,
                                 comment_karma |-> me.comment_karma,
                                 total_karma |-> me.link_karma + me.comment_karma,
                                 is_verified |-> me.has_verified_email,
                                 ready_for_action |->
                                     me.link_karma + me.comment_karma >= ReadyKarma]),
                     <<<<"me">>>>, comments)

check_status(environ, net, comments) ==
    LET reddit == get_reddit(environ, net)
        me == net.profile
    IN  IF reddit.raised THEN Outcome(TRUE, NoResult, <<>>, comments)
        ELSE IF ~reddit.ok
        THEN Outcome(FALSE, ErrorResult(ERR_NOT_CONFIGURED), <<>>, comments)
        \* me is None on a read-only handle: me.name raises, and is caught
        ELSE IF reddit.read_only
        THEN Outcome(FALSE, ErrorResult("exception: NoneType"), <<>>, comments)
        ELSE IF net.fault = "me"
        THEN Outcome(FALSE, ErrorResult("exception: me"), <<<<"me">>>>, comments)
        ELSE IF net.fault = "field"
        THEN Outcome(FALSE, ErrorResult("exception: field"), <<<<"me">>>>, comments)
        ELSE Outcome(FALSE,
                     DictResult([username |-> me.name,
                                 link_karma |-> me.link_karma,
                                 comment_karma |-> me.comment_karma,
                                 total_karma |-> me.link_karma + me.comment_karma,
                                 is_verified |-> me.has_verified_email,
                                 ready_for_action |-> me.comment_karma >= ReadyKarma]),
                     <<<<"me">>>>, comments)

\* --------------------------------------------------------------------- CLI

DefaultLimit == 25

\* The arguments a function was called with (the fields it does not take
\* keep these defaults).
NoCall ==
    [fn |-> "none", subreddits |-> NoList, keywords |-> NoList, limit |-> 0,
     post_id |-> <<>>, reply_text |-> <<>>, dry_run |-> TRUE]

\* for arg in sys.argv[2:]: if arg.startswith("--subs="): subs = ...
\* (the last such argument wins), from position i of argv on.
RECURSIVE ParseSubs(_, _, _)
ParseSubs(argv, i, subs) ==
    IF i > Len(argv) THEN subs
    ELSE IF StartsWith(argv[i], S_subs_eq)
    THEN ParseSubs(argv, i + 1, GivenList(Split(AfterFirst(argv[i], "="), ",")))
    ELSE ParseSubs(argv, i + 1, subs)

\* print(json.dumps(...)); sys.exit(1)
UsageExit(msg, comments) ==
    [stdout |-> <<ErrorResult(msg)>>, exit_code |-> 1, call |-> NoCall,
     out |-> Outcome(FALSE, NoResult, <<>>, comments)]

\* result = f(...); print(json.dumps(result, default=str)), and the end of
\* the script (status 0); an exception leaving f ends the process with a
\* traceback on standard error and status 1, nothing printed.
PrintResult(call, out) ==
    [stdout |-> IF out.raised THEN <<>> ELSE <<out.result>>,
     exit_code |-> IF out.raised THEN 1 ELSE 0,
     call |-> call, out |-> out]

\* The script body under `if __name__ == "__main__":` (sys.argv[k] is
\* argv[k + 1] here).
Main(argv, environ, net, comments) ==
    IF Len(argv) < 2
    THEN UsageExit("Usage: reddit_scanner.py <scan|reply|warmup|status>", comments)
    ELSE LET cmd == argv[2] IN
    IF cmd = S_scan
    THEN LET subs == ParseSubs(argv, 3, NoList)
         IN  PrintResult([NoCall EXCEPT !.fn = "scan", !.subreddits = subs,
                                        !.limit = DefaultLimit],
                         scan_opportunities(environ, net, comments, subs, NoList,
                                            DefaultLimit))
    ELSE IF cmd = S_reply
    THEN IF Len(argv) < 4
         THEN UsageExit("Usage: reply <post_id> <text> [--live]", comments)
         ELSE LET post_id == argv[3]
                  reply_text == argv[4]
                  dry_run == ~InSeq(S_live, argv)
              IN  PrintResult([NoCall EXCEPT !.fn = "reply", !.post_id = post_id,
                                             !.reply_text = reply_text,
                                             !.dry_run = dry_run],
                              reply_to_post(environ, net, comments, post_id,
                                            reply_text, dry_run))
    ELSE IF cmd = S_warmup
    THEN PrintResult([NoCall EXCEPT !.fn = "warmup"],
                     warmup_actions(environ, net, comments))
    ELSE IF cmd = S_status
    THEN PrintResult([NoCall EXCEPT !.fn = "status"],
                     check_status(environ, net, comments))
    ELSE UsageExit("Unknown command", comments)

\* ------------------------------------------------- the environment's inputs

\* Bounds of the model: the comments the remote service stores in all, and
\* the comments it returns with a post before "load more" placeholders.
MaxComments == 3

PageSize == 1

ME == <<"f", "i", "s", "h", "b", "i", "g">>

SOMEONE == <<"b", "o", "b">>

P1 == <<"p", "1">>

NO_POST == <<"z", "z">>

S_hi == <<"H", "i">>

S_bogus == <<"b", "o", "g", "u", "s">>

S_prog == <<"r", "s", ".", "p", "y">>

A_subs_two == <<"-", "-", "s", "u", "b", "s", "=", "S", "a", "a", "S", ",", "w", "e", "b", "d", "e", "v">>

A_subs_three == <<"-", "-", "s", "u", "b", "s", "=", "w", "e", "b", "d", "e", "v", ",", "n", "o", "s", "u", "c", "h", ",", "S", "a", "a", "S">>

A_subs_empty == <<"-", "-", "s", "u", "b", "s", "=">>

A_verbose == <<"-", "-", "v", "e", "r", "b", "o", "s", "e">>

SUB_SaaS == <<"S", "a", "a", "S">>

SUB_webdev == <<"w", "e", "b", "d", "e", "v">>

SUB_entrepreneur == <<"e", "n", "t", "r", "e", "p", "r", "e", "n", "e", "u", "r">>

SUB_nosuch == <<"n", "o", "s", "u", "c", "h">>

T_looking == <<"L", "o", "o", "k", "i", "n", "g", " ", "f", "o", "r", " ", "a", " ", "t", "o", "o", "l">>

T_price == <<"w", "e", " ", "d", "o", " ", "p", "r", "i", "c", "e", " ", "t", "r", "a", "c", "k", "i", "n", "g">>

T_aitool == <<"N", "e", "w", " ", "A", "I", " ", "T", "o", "o", "l">>

T_hello == <<"h", "e", "l", "l", "o">>

T_workflow == <<"M", "y", " ", "W", "o", "r", "k", "f", "l", "o", "w">>

T_ineed == <<"I", " ", "n", "e", "e", "d", " ", "h", "e", "l", "p">>

KW_ai == <<"A", "I", " ", "t", "o", "o", "l">>

KW_Looking == <<"L", "o", "o", "k", "i", "n", "g", " ", "F", "o", "r">>

KW_hello == <<"h", "e", "l", "l", "o">>

KW_tool == <<"t", "o", "o", "l">>

\* The posts that exist on the remote service.
Posts == {P1}

\* The process environment: the four REDDIT_* variables, unset (None), empty
\* or set.
Env(id, secret, username, password) ==
    [client_id |-> id, client_secret |-> secret,
     username |-> username, password |-> password]

EnvChoices ==
    { Env(<<"i">>, <<"s">>, ME, <<"p">>),      \* authenticated
      Env(<<"i">>, <<"s">>, None, None),       \* read-only
      Env(None, <<"s">>, ME, <<"p">>),         \* client id unset
      Env(<<>>, <<"s">>, ME, <<"p">>),         \* client id empty
      Env(<<"i">>, None, ME, <<"p">>),         \* client secret unset
      Env(<<"i">>, <<>>, None, None) }         \* client secret empty

Post(id, title, selftext, created_utc, nulls) ==
    [id |-> id, title |-> title, selftext |-> selftext, permalink |-> <<"/r/", id>>,
     score |-> 1, num_comments |-> 0, created_utc |-> created_utc, nulls |-> nulls]

PostA == Post("a", T_looking, T_price, 30, {})

PostB == Post("b", T_aitool, <<>>, 10, {"selftext"})

PostC == Post("c", T_hello, <<>>, 20, {})

PostD == Post("d", <<>>, T_looking, 50, {"title"})

PostE == Post("e", T_ineed, <<>>, 0, {"created_utc"})

PostF == Post("f", T_workflow, <<>>, 30, {})

PostG == Post("g", T_hello, T_looking, 40, {})

ListingOf(posts, raise_after) == [posts |-> posts, raise_after |-> raise_after]

SaaSListings ==
    { ListingOf(<<PostB, PostC, PostA>>, -1),
      ListingOf(<<PostB, PostA>>, 1),
      ListingOf(<<PostA, PostD, PostB>>, -1) }

WebdevListings ==
    { ListingOf(<<PostF, PostG>>, -1),
      ListingOf(<<PostG, PostE, PostF>>, -1),
      ListingOf(<<PostF>>, 0) }

EntrepreneurListings ==
    { ListingOf(<<>>, -1), ListingOf(<<PostC>>, 0) }

\* The listings of three of the subreddits (the others have no posts, and
\* SUB_nosuch does not exist).
Feed(saas, webdev, entrepreneur) ==
    [s \in {SUB_SaaS, SUB_webdev, SUB_entrepreneur} |->
        IF s = SUB_SaaS THEN saas
        ELSE IF s = SUB_webdev THEN webdev
        ELSE entrepreneur]

EmptyFeed == [s \in {} |-> ListingOf(<<>>, -1)]

Profile(link_karma, comment_karma) ==
    [name |-> ME, link_karma |-> link_karma, comment_karma |-> comment_karma,
     has_verified_email |-> TRUE]

\* What the remote service (and the client library) answers during one
\* invocation.
Net(construct_raises, fault, feed, hot, profile, loaded) ==
    [construct_raises |-> construct_raises, fault |-> fault, feed |-> feed,
     hot |-> hot, profile |-> profile, loaded |-> loaded]

NoNet == Net(FALSE, "none", EmptyFeed, ListingOf(<<>>, -1), Profile(0, 0), {})

ScanNets ==
    { [NoNet EXCEPT !.feed = Feed(a, b, c)] :
        a \in SaaSListings, b \in WebdevListings, c \in EntrepreneurListings }
    \cup { [NoNet EXCEPT !.construct_raises = TRUE] }

\* The remote answers tried with the command-line scan (a part of ScanNets).
CliScanNets ==
    { [NoNet EXCEPT !.feed = Feed(a, b, ListingOf(<<>>, 0))] :
        a \in { ListingOf(<<PostB, PostC, PostA>>, -1), ListingOf(<<PostB, PostA>>, 1) },
        b \in { ListingOf(<<PostF, PostG>>, -1) } }
    \cup { [NoNet EXCEPT !.construct_raises = TRUE] }

Profiles ==
    { Profile(l, c) : l \in {-3, 40, 60}, c \in {15, 49, 50, 51} }

HotListings ==
    { ListingOf(<<>>, -1),
      ListingOf(<<PostA, PostB, PostC, PostF, PostG, PostA>>, -1),
      ListingOf(<<PostA, PostD>>, -1),
      ListingOf(<<PostA, PostB>>, 1) }

StatusNets ==
    { [NoNet EXCEPT !.profile = p, !.fault = f] :
        p \in Profiles, f \in {"none"} }
    \cup { [NoNet EXCEPT !.fault = f] : f \in {"me", "field"} }
    \cup { [NoNet EXCEPT !.construct_raises = TRUE] }

WarmupNets ==
    { [NoNet EXCEPT !.profile = p, !.hot = h] :
        p \in {Profile(40, 15), Profile(60, 40), Profile(99, 0)}, h \in HotListings }
    \cup { [NoNet EXCEPT !.fault = f] : f \in {"me", "field"} }
    \cup { [NoNet EXCEPT !.construct_raises = TRUE] }

\* The answers to a fetch of a post with comment forest `forest`: the service
\* returns PageSize comments (all of them when there are no more), each with
\* its ancestors, and "load more" placeholders for the others.
LoadedChoices(forest) ==
    { L \in SUBSET (1..Len(forest)) :
        /\ Cardinality(L) = Min(PageSize, Len(forest))
        /\ \A i \in L : forest[i].parent = 0 \/ forest[i].parent \in L }

ReplyNets(forest) ==
    { [NoNet EXCEPT !.loaded = L, !.fault = f] :
        L \in LoadedChoices(forest), f \in {"none", "fetch", "me", "reply"} }
    \cup { [NoNet EXCEPT !.construct_raises = TRUE] }

UsageArgv ==
    { <<S_prog>>, <<S_prog, S_bogus>>, <<S_prog, S_reply>>, <<S_prog, S_reply, P1>> }

ScanArgv ==
    { <<S_prog, S_scan>>,
      <<S_prog, S_scan, A_subs_two>>,
      <<S_prog, S_scan, A_subs_empty, A_subs_three, A_verbose>> }

ReplyArgv ==
    { <<S_prog, S_reply, P1, S_hi>>,
      <<S_prog, S_reply, P1, S_live>>,
      <<S_prog, S_reply, NO_POST, S_hi>>,
      <<S_prog, S_reply, S_live, S_hi>>,
      <<S_prog, S_reply, P1, S_hi, S_live>> }

KeywordChoices ==
    { NoList, GivenList(<<>>), GivenList(<<KW_hello, KW_tool>>),
      GivenList(<<KW_ai>>), GivenList(<<KW_Looking, KW_hello>>) }

SubredditChoices ==
    { NoList, GivenList(<<SUB_SaaS, SUB_webdev>>),
      GivenList(<<SUB_webdev, SUB_nosuch, SUB_SaaS>>) }

LimitChoices == {1, DefaultLimit}

\* ------------------------------------------------------------------- state

VARIABLES
    pc,           \* "idle": no process is running; "done": one has ended
    argv,         \* sys.argv of the process (<<>> for a direct call of scan)
    environ,      \* its REDDIT_* environment variables
    net,          \* what the remote service answered it
    call,         \* the function it called and the arguments
    result,       \* what the function returned
    calls,        \* the requests it made to the remote service, in order
    raised,       \* whether an exception left the function
    stdout,       \* the JSON documents it printed
    exit_code,    \* its exit status (-1: none)
    comments,     \* remote service: post id -> the post's comments
    commented0    \* the posts the account had commented on at the start

vars ==
    <<pc, argv, environ, net, call, result, calls, raised, stdout, exit_code,
      comments, commented0>>

Comment(author, parent) == [author |-> author, parent |-> parent]

MyCount(forest) ==
    Cardinality({i \in 1..Len(forest) : forest[i].author = ME})

TotalComments(cs) == Len(cs[P1])

\* What the remote service may hold before the first invocation.
InitComments ==
    { [p \in Posts |-> <<>>],
      [p \in Posts |-> <<Comment(SOMEONE, 0), Comment(ME, 1)>>],
      [p \in Posts |-> <<Comment(None, 0)>>] }

Fresh ==
    /\ argv = <<>>
    /\ environ = Env(None, None, None, None)
    /\ net = NoNet
    /\ call = NoCall
    /\ result = NoResult
    /\ calls = <<>>
    /\ raised = FALSE
    /\ stdout = <<>>
    /\ exit_code = -1

Init ==
    /\ pc = "idle"
    /\ Fresh
    /\ comments \in InitComments
    /\ commented0 = {p \in Posts : MyCount(comments[p]) > 0}

\* One run of the script with arguments a, environment e and remote answers n.
Run(a, e, n) ==
    LET m == Main(a, e, n, comments)
    IN  /\ TotalComments(m.out.comments) <= MaxComments
        /\ pc' = "done"
        /\ argv' = a
        /\ environ' = e
        /\ net' = n
        /\ call' = m.call
        /\ result' = m.out.result
        /\ calls' = m.out.calls
        /\ raised' = m.out.raised
        /\ stdout' = m.stdout
        /\ exit_code' = m.exit_code
        /\ comments' = m.out.comments
        /\ UNCHANGED commented0

\* No subcommand, an unknown one, or reply without its two arguments.
MainUsage ==
    /\ pc = "idle"
    /\ \E a \in UsageArgv, e \in EnvChoices : Run(a, e, NoNet)

MainScan ==
    /\ pc = "idle"
    /\ \E a \in ScanArgv, e \in EnvChoices, n \in CliScanNets : Run(a, e, n)

MainReply ==
    /\ pc = "idle"
    /\ \E a \in ReplyArgv, e \in EnvChoices :
          \E n \in ReplyNets(IF a[3] \in Posts THEN comments[a[3]] ELSE <<>>) :
              Run(a, e, n)

MainWarmup ==
    /\ pc = "idle"
    /\ \E e \in EnvChoices, n \in WarmupNets : Run(<<S_prog, S_warmup>>, e, n)

MainStatus ==
    /\ pc = "idle"
    /\ \E e \in EnvChoices, n \in StatusNets : Run(<<S_prog, S_status>>, e, n)

\* scan_opportunities called as a function, with its keyword arguments.
CallScan ==
    /\ pc = "idle"
    /\ \E e \in EnvChoices, n \in ScanNets, s \in SubredditChoices,
          k \in KeywordChoices, l \in LimitChoices :
        LET out == scan_opportunities(e, n, comments, s, k, l)
        IN  /\ pc' = "done"
            /\ argv' = <<>>
            /\ environ' = e
            /\ net' = n
            /\ call' = [NoCall EXCEPT !.fn = "scan", !.subreddits = s,
                                      !.keywords = k, !.limit = l]
            /\ result' = out.result
            /\ calls' = out.calls
            /\ raised' = out.raised
            /\ UNCHANGED <<stdout, exit_code, comments, commented0>>

\* Another account comments on a post (top-level, or in reply to the latest
\* comment).
RemoteComment ==
    /\ pc = "idle"
    /\ TotalComments(comments) < MaxComments
    /\ \E p \in Posts :
       \E parent \in {0, Len(comments[p])} :
        /\ comments' = [comments EXCEPT ![p] = Append(@, Comment(SOMEONE, parent))]
    /\ UNCHANGED <<pc, argv, environ, net, call, result, calls, raised, stdout,
                   exit_code, commented0>>

\* The caller starts the next process: nothing of the last one is kept.
NewProcess ==
    /\ pc = "done"
    /\ pc' = "idle"
    /\ argv' = <<>>
    /\ environ' = Env(None, None, None, None)
    /\ net' = NoNet
    /\ call' = NoCall
    /\ result' = NoResult
    /\ calls' = <<>>
    /\ raised' = FALSE
    /\ stdout' = <<>>
    /\ exit_code' = -1
    /\ UNCHANGED <<comments, commented0>>

\* The command-line script, run again and again against the remote service.
Next ==
    \/ MainUsage
    \/ MainScan
    \/ MainReply
    \/ MainWarmup
    \/ MainStatus
    \/ RemoteComment
    \/ NewProcess

Spec == Init /\ [][Next]_vars

\* scan_opportunities as a function, over all its arguments.
ScanNext ==
    \/ CallScan
    \/ NewProcess

ScanSpec == Init /\ [][ScanNext]_vars

\* ------------------------------------------------------------------ claims

\* A variable is missing when it is unset or empty.
Missing(x) == x = None \/ x = <<>>

Unconfigured(e) == Missing(e.client_id) \/ Missing(e.client_secret)

Authenticated(e) ==
    ~Unconfigured(e) /\ ~Missing(e.username) /\ ~Missing(e.password)

\* No step of the client library or of the remote service failed.
NoFault(n) == ~n.construct_raises /\ n.fault = "none"

IsError(r) == r.type = "dict" /\ "error" \in DOMAIN r.dict

HasStatus(r, s) == r.type = "dict" /\ "status" \in DOMAIN r.dict /\ r.dict.status = s

HasReplyCall(cs) == \E k \in 1..Len(cs) : cs[k][1] = "reply"

\* A process has run one of the four operations.
Ran(fn) == pc = "done" /\ call.fn = fn

RanAny == pc = "done" /\ call.fn \in {"scan", "reply", "warmup", "status"}

\* C1: with the client id or the client secret missing (unset or empty),
\* scan, reply, warmup and status each return one top-level object with an
\* `error` key (for scan too: an object, not a list) and make no call to the
\* remote service.
C1_UnconfiguredIsErrorWithoutCalls ==
    (RanAny /\ Unconfigured(environ)) =>
        /\ ~raised
        /\ IsError(result)
        /\ stdout = <<result>>
        /\ calls = <<>>

C1_Witness ==
    /\ Ran("reply")
    /\ ~call.dry_run
    /\ call.post_id = P1
    /\ ~Missing(environ.client_id)
    /\ environ.client_secret = <<>>
    /\ IsError(result)
    /\ calls = <<>>

\* C2: a reply invocation with dry_run = true leaves the comments of the
\* remote service unchanged, issues no comment submission and never returns
\* status `replied`; status `replied` comes only from an invocation with
\* dry_run = false (--live on the command line) that issued a submission.
C2_DryRunNeverSubmits ==
    [][ (pc = "idle" /\ pc' = "done" /\ call'.fn = "reply") =>
            /\ call'.dry_run =>
                  /\ comments' = comments
                  /\ ~HasReplyCall(calls')
                  /\ ~HasStatus(result', "replied")
            /\ HasStatus(result', "replied") =>
                  /\ ~call'.dry_run
                  /\ InSeq(S_live, argv')
                  /\ HasReplyCall(calls')
                  /\ comments' # comments ]_vars

C2_Witness ==
    /\ Ran("reply")
    /\ call.dry_run
    /\ Authenticated(environ)
    /\ HasStatus(result, "dry_run")
    /\ result.dict.would_reply = S_hi
    /\ calls = FetchCall(P1) \o <<<<"me">>>>

\* C3: whenever the authenticated account already has a comment anywhere in
\* the comment tree of the target post (top-level or nested, also when it is
\* reachable only through a "load more" placeholder), a reply invocation in
\* which nothing fails returns status `skipped` and submits nothing, in dry
\* run and live alike.
C3_AlreadyCommentedIsSkipped ==
    [][ ( /\ pc = "idle" /\ pc' = "done" /\ call'.fn = "reply"
          /\ Authenticated(environ') /\ NoFault(net')
          /\ call'.post_id \in Posts
          /\ MyCount(comments[call'.post_id]) > 0 ) =>
            /\ HasStatus(result', "skipped")
            /\ ~HasReplyCall(calls')
            /\ comments' = comments ]_vars

\* C4: on a post on which the account had no comment at the start, the
\* account has at most one comment after any sequence of reply invocations.
C4_AtMostOneComment ==
    \A p \in Posts \ commented0 : MyCount(comments[p]) <= 1

\* The keyword list of a scan: the caller's, or the default one.
ScanKeywords == OrDefault(call.keywords, PAIN_KEYWORDS)

ScanSubs == OrDefault(call.subreddits, DEFAULT_SUBS)

\* The posts subreddit s yields to the scan, and whether its try block fails.
Yielded(s) == Listing(net, s, call.limit).posts

SubFails(s) ==
    \/ Listing(net, s, call.limit).raises
    \/ \E i \in 1..Len(Yielded(s)) :
          \/ "title" \in Yielded(s)[i].nulls
          \/ /\ "created_utc" \in Yielded(s)[i].nulls
             /\ Matched(ScanKeywords, PostText(Yielded(s)[i])) # <<>>

ScanReturnedList == Ran("scan") /\ ~raised /\ result.type = "list"

RecordsOf(s, id) ==
    {k \in 1..Len(result.list) :
        /\ "id" \in DOMAIN result.list[k]
        /\ result.list[k].id = id
        /\ result.list[k].subreddit = s}

ErrorsOf(s) ==
    {k \in 1..Len(result.list) :
        /\ "error" \in DOMAIN result.list[k]
        /\ result.list[k].error[2] = s}

\* The keywords of kws that occur in title + " " + body, letter case ignored.
OccurIgnoringCase(kws, post) ==
    SelectSeq(kws, LAMBDA kw :
        Contains(Lower(post.title \o <<" ">> \o post.selftext), Lower(kw)))

\* C5: for every keyword list (in any letter case) and every fetched post, the
\* scan emits a record for the post iff a keyword occurs in title + " " + body
\* as a case-insensitive substring, and keywords_matched is exactly the
\* keywords that so occur.
C5_MatchIsCaseInsensitive ==
    ScanReturnedList =>
        \A j \in 1..Len(ScanSubs) :
            LET s == ScanSubs[j] IN
            ~SubFails(s) =>
                \A i \in 1..Len(Yielded(s)) :
                    LET post == Yielded(s)[i]
                        expected == OccurIgnoringCase(ScanKeywords, post)
                    IN  /\ (RecordsOf(s, post.id) # {}) <=> (expected # <<>>)
                        /\ \A k \in RecordsOf(s, post.id) :
                              result.list[k].keywords_matched = expected

HasTimestamp(r) == "created_utc" \in DOMAIN r

\* C6: the list a scan returns is non-increasing in created_utc over the post
\* records, and every record without a timestamp (every error record) comes
\* after every record with one.
C6_SortedByRecency ==
    ScanReturnedList =>
        \A i, j \in 1..Len(result.list) :
            i < j =>
                LET a == result.list[i]
                    b == result.list[j]
                IN  /\ (HasTimestamp(a) /\ HasTimestamp(b)) =>
                          a.created_utc >= b.created_utc
                    /\ ~(~HasTimestamp(a) /\ HasTimestamp(b))

C6_Witness ==
    /\ ScanReturnedList
    /\ Len(result.list) >= 4
    /\ result.list # ScanLoop(net, ScanSubs, 1, ScanKeywords, call.limit).records
    /\ \E i, j \in 1..Len(result.list) :
          /\ HasTimestamp(result.list[i]) /\ HasTimestamp(result.list[j])
          /\ result.list[i].created_utc > result.list[j].created_utc
    /\ \E i, j \in 1..Len(result.list) :
          /\ i # j
          /\ HasTimestamp(result.list[i]) /\ HasTimestamp(result.list[j])
          /\ result.list[i].created_utc = result.list[j].created_utc
    /\ \E i \in 1..Len(result.list) : ~HasTimestamp(result.list[i])

\* C7: in a configured scan every subreddit of the list is fetched, in order,
\* whichever of them fail; each failing one yields exactly one error record
\* naming it, a non-failing one none; and every matching post of a
\* non-failing subreddit is in the output.
C7_FailureDoesNotAbortScan ==
    ScanReturnedList =>
        /\ calls = [j \in 1..Len(ScanSubs) |-> <<"new", ScanSubs[j]>>]
        /\ \A j \in 1..Len(ScanSubs) :
              LET s == ScanSubs[j] IN
              /\ Cardinality(ErrorsOf(s)) = IF SubFails(s) THEN 1 ELSE 0
              /\ ~SubFails(s) =>
                    \A i \in 1..Len(Yielded(s)) :
                        Matched(ScanKeywords, PostText(Yielded(s)[i])) # <<>>
                            => RecordsOf(s, Yielded(s)[i].id) # {}

C7_Witness ==
    /\ ScanReturnedList
    /\ call.subreddits.list = <<SUB_webdev, SUB_nosuch, SUB_SaaS>>
    /\ SubFails(SUB_webdev) /\ SubFails(SUB_nosuch) /\ ~SubFails(SUB_SaaS)
    /\ Cardinality(ErrorsOf(SUB_webdev)) = 1
    /\ Cardinality(ErrorsOf(SUB_nosuch)) = 1
    /\ RecordsOf(SUB_SaaS, "a") # {}
    /\ RecordsOf(SUB_webdev, "g") # {}

\* C8: a recognized subcommand (reply with both positional arguments) never
\* ends in an uncaught exception, whatever step of the remote client fails
\* (client construction included): it prints exactly one JSON document and
\* exits with status 0, a failure being an `error` entry of the document; an
\* unknown or missing subcommand prints an error object and exits with 1.
C8_AlwaysOneDocumentAndExitZero ==
    pc = "done" =>
        IF call.fn \in {"scan", "reply", "warmup", "status"}
        THEN /\ ~raised
             /\ Len(stdout) = 1
             /\ exit_code = 0
        ELSE /\ Len(stdout) = 1
             /\ IsError(stdout[1])
             /\ exit_code = 1

\* C9: `reply <post_id> <text>` sends a reply only when --live is supplied in
\* addition to the two positional arguments: no value of the post id or of
\* the reply text switches the invocation to live sending.
C9_LiveNeedsSeparateOption ==
    (Ran("reply") /\ ~\E i \in 5..Len(argv) : argv[i] = S_live) =>
        ~HasStatus(result, "replied")

\* C10: for an authenticated profile with link karma L and comment karma C,
\* status returns total_karma = L + C and ready_for_action = (C >= 50); with
\* no authenticated profile (no credentials, or a read-only handle) the
\* result is an `error` object.
C10_StatusKarma ==
    (Ran("status") /\ ~net.construct_raises) =>
        IF Authenticated(environ) /\ net.fault = "none"
        THEN /\ result.type = "dict"
             /\ ~IsError(result)
             /\ result.dict.total_karma =
                   net.profile.link_karma + net.profile.comment_karma
             /\ result.dict.ready_for_action = (net.profile.comment_karma >= 50)
        ELSE IsError(result)

C10_Witness ==
    /\ Ran("status")
    /\ Authenticated(environ)
    /\ net.profile.link_karma = 40
    /\ net.profile.comment_karma = 15
    /\ ~IsError(result)
    /\ result.dict.total_karma = 55
    /\ result.dict.ready_for_action = FALSE

====
